---- MODULE Spec2Model ----
(***************************************************************************)
(* Model of rank_electives.py: the label functions (the column selection   *)
(* test and extract_course_name, both regular-expression searches over a   *)
(* column label) and the main() pipeline (load, select, clean, melt,       *)
(* aggregate, sort, rank, round, and the three output writes).             *)
(*                                                                         *)
(* A label is a sequence of one-character strings.  A rating is a          *)
(* fixed-point integer: Scale units are one rating point, so 4.0001 is     *)
(* 40001.  A mean is kept as the exact fraction num/den.                   *)
(***************************************************************************)
EXTENDS Integers, Sequences, FiniteSets, TLC

(***************************************************************************)
(* Characters and character classes of Python's re module.                 *)
(***************************************************************************)
Upper == {"A", "B", "C", "E", "F", "I", "N", "R", "T"}

LowerOf == [c \in Upper |->
              CASE c = "A" -> "a" [] c = "B" -> "b" [] c = "C" -> "c"
                [] c = "E" -> "e" [] c = "F" -> "f" [] c = "I" -> "i"
                [] c = "N" -> "n" [] c = "R" -> "r" [] c = "T" -> "t"]

Letters == Upper \cup {"a", "b", "c", "e", "f", "i", "n", "r", "t", "x"}

Digits == {"0", "1", "2", "3", "4", "5", "6", "7", "8", "9"}

Whitespace == {" ", "\t", "\n"}

\* str.lower() on one character
LowerChar(c) == IF c \in Upper THEN LowerOf[c] ELSE c

\* str.lower()
Lower(s) == [i \in 1..Len(s) |-> LowerChar(s[i])]

\* Code point of a character (Python compares strings by code point).
Ord(c) ==
  CASE c = "\t" -> 9 [] c = "\n" -> 10 [] c = " " -> 32 [] c = "-" -> 45
    [] c = "." -> 46
    [] c = "0" -> 48 [] c = "1" -> 49 [] c = "2" -> 50 [] c = "3" -> 51
    [] c = "4" -> 52 [] c = "5" -> 53 [] c = "6" -> 54 [] c = "7" -> 55
    [] c = "8" -> 56 [] c = "9" -> 57
    [] c = "A" -> 65 [] c = "B" -> 66 [] c = "C" -> 67 [] c = "E" -> 69
    [] c = "F" -> 70 [] c = "I" -> 73 [] c = "N" -> 78 [] c = "R" -> 82
    [] c = "T" -> 84
    [] c = "a" -> 97 [] c = "b" -> 98 [] c = "c" -> 99 [] c = "e" -> 101
    [] c = "f" -> 102 [] c = "i" -> 105 [] c = "n" -> 110 [] c = "r" -> 114
    [] c = "t" -> 116 [] c = "x" -> 120

\* s < t for Python strings
RECURSIVE StrLess(_, _)
StrLess(s, t) ==
  IF t = << >> THEN FALSE
  ELSE IF s = << >> THEN TRUE
  ELSE IF Ord(Head(s)) # Ord(Head(t)) THEN Ord(Head(s)) < Ord(Head(t))
  ELSE StrLess(Tail(s), Tail(t))

(***************************************************************************)
(* A regular expression is a sequence of atoms; an atom is a character     *)
(* class with a repetition: exactly one, * (min 0, many) or + (min 1,      *)
(* many).  Every search of the program is made with re.IGNORECASE.         *)
(***************************************************************************)
Lit(c) == [cls |-> "lit", ch |-> c, min |-> 1, many |-> FALSE]
Star(k) == [cls |-> k, ch |-> "", min |-> 0, many |-> TRUE]
Plus(k) == [cls |-> k, ch |-> "", min |-> 1, many |-> TRUE]

\* one character against one atom, under re.IGNORECASE
AtomMatches(a, c) ==
  CASE a.cls = "lit"   -> LowerChar(c) = LowerChar(a.ch)
    [] a.cls = "space" -> c \in Whitespace          \* \s
    [] a.cls = "digit" -> c \in Digits              \* \d
    [] a.cls = "alpha" -> c \in Letters             \* [A-Z], ignoring case
    [] a.cls = "dot"   -> c # "\n"                  \* . without re.DOTALL

\* the length of the longest run of characters from position i matching a
RECURSIVE RunLen(_, _, _)
RunLen(a, s, i) ==
  IF i > Len(s) \/ ~AtomMatches(a, s[i]) THEN 0 ELSE 1 + RunLen(a, s, i + 1)

\* every position at which atoms k.. of pat can stop having started at i
RECURSIVE Ends(_, _, _, _)
Ends(pat, k, s, i) ==
  IF k > Len(pat) THEN {i}
  ELSE LET a == pat[k]
           run == RunLen(a, s, i)
           most == IF a.many THEN run ELSE IF run > 0 THEN 1 ELSE 0
       IN UNION {Ends(pat, k + 1, s, i + n) : n \in a.min..most}

\* $ without re.MULTILINE: the end of the string, or just before a final newline
AtDollar(s, e) == e = Len(s) + 1 \/ (e = Len(s) /\ s[e] = "\n")

\* acc\s*\d+
CodePattern == <<Lit("a"), Lit("c"), Lit("c"), Star("space"), Plus("digit")>>

\* (ACC\s*\d+[A-Z]*\s+.+)
CoursePattern ==
  <<Lit("A"), Lit("C"), Lit("C"), Star("space"), Plus("digit"), Star("alpha"),
    Plus("space"), Plus("dot")>>

\* -\s*
DashPrefix == <<Lit("-"), Star("space")>>

(***************************************************************************)
(* re.search(prefix + "(" + body + ")$", s, flags=re.IGNORECASE): the      *)
(* leftmost start with a match; the group begins where the greedy prefix   *)
(* stops and ends where $ holds.                                           *)
(***************************************************************************)
GroupStarts(prefix, body, s, i) ==
  {g \in Ends(prefix, 1, s, i) : \E e \in Ends(body, 1, s, g) : AtDollar(s, e)}

Max(S) == CHOOSE x \in S : \A y \in S : y <= x
Min(S) == CHOOSE x \in S : \A y \in S : x <= y

SearchGroup(prefix, body, s) ==
  LET starts == {i \in 1..(Len(s) + 1) : GroupStarts(prefix, body, s, i) # {}}
  IN IF starts = {} THEN [found |-> FALSE, group |-> << >>]
     ELSE LET g == Max(GroupStarts(prefix, body, s, Min(starts)))
              e == Max({x \in Ends(body, 1, s, g) : AtDollar(s, x)})
          IN [found |-> TRUE, group |-> SubSeq(s, g, e - 1)]

\* re.search(pat, s, flags=re.IGNORECASE) is not None
SearchFound(pat, s) == \E i \in 1..(Len(s) + 1) : Ends(pat, 1, s, i) # {}

\* needle in s
Contains(s, needle) ==
  \E i \in 1..(Len(s) - Len(needle) + 1) :
     SubSeq(s, i, i + Len(needle) - 1) = needle

\* s.split(): the maximal runs of non-whitespace characters
RECURSIVE SplitFrom(_, _, _)
SplitFrom(s, i, word) ==
  IF i > Len(s) THEN (IF word = << >> THEN << >> ELSE <<word>>)
  ELSE IF s[i] \in Whitespace
       THEN (IF word = << >> THEN << >> ELSE <<word>>) \o SplitFrom(s, i + 1, << >>)
       ELSE SplitFrom(s, i + 1, Append(word, s[i]))

Split(s) == SplitFrom(s, 1, << >>)

\* " ".join(words)
RECURSIVE Join(_)
Join(words) ==
  IF words = << >> THEN << >>
  ELSE IF Len(words) = 1 THEN words[1]
  ELSE words[1] \o <<" ">> \o Join(Tail(words))

\* s.strip()
Strip(s) ==
  LET keep == {i \in 1..Len(s) : s[i] \notin Whitespace}
  IN IF keep = {} THEN << >> ELSE SubSeq(s, Min(keep), Max(keep))

extract_course_name(column_name) ==
  LET dash_match == SearchGroup(DashPrefix, CoursePattern, column_name)
      acc_match == SearchGroup(<< >>, CoursePattern, column_name)
  IN IF dash_match.found THEN Join(Split(dash_match.group))
     ELSE IF acc_match.found THEN Join(Split(acc_match.group))
     ELSE Strip(column_name)

\* the selection with the "rate" marker looked for in the label as spelled
IsElectiveRatingColumnCaseSensitive(col) ==
  /\ col.text
  /\ Contains(col.chars, <<"r", "a", "t", "e">>)
  /\ SearchFound(CodePattern, col.chars)

\* the condition of the list comprehension that selects the elective columns;
\* a column label is [text |-> isinstance(col, str), chars |-> its characters]
IsElectiveRatingColumn(col) ==
  /\ col.text
  /\ Contains(Lower(col.chars), <<"r", "a", "t", "e">>)
  /\ SearchFound(CodePattern, col.chars)

(***************************************************************************)
(* Ratings.  A cell of the sheet is [kind, v]: blank, text that is no      *)
(* number, a number, or text that spells a number; v is the number in      *)
(* fixed point (Scale units are one rating point).                         *)
(***************************************************************************)
Decimals == 3
Milli == 10 ^ Decimals
Scale == 10 * Milli
MinRating == 1
MaxRating == 5
TopN == 5

NaN == [nan |-> TRUE, v |-> 0]

\* pd.to_numeric(cell, errors="coerce")
to_numeric(cell) ==
  IF cell.kind \in {"number", "numtext"} THEN [nan |-> FALSE, v |-> cell.v] ELSE NaN

\* the range filter with the bounds left out of the range
where_in_range_exclusive(x) ==
  IF ~x.nan /\ x.v > MinRating * Scale /\ x.v < MaxRating * Scale THEN x ELSE NaN

\* one cell of df.where((df >= 1) & (df <= 5)); a comparison with NaN is False
where_in_range(x) ==
  IF ~x.nan /\ x.v >= MinRating * Scale /\ x.v <= MaxRating * Scale THEN x ELSE NaN

\* a < b for fractions with positive denominators
RatLess(a, b) == a.num * b.den < b.num * a.den
RatEq(a, b) == a.num * b.den = b.num * a.den

\* Series.round(3): to the nearest multiple of 1/Milli, halves to even
round3(x) ==
  LET n == x.num * Milli
      q == n \div x.den
      r == n % x.den
  IN [num |-> IF 2 * r > x.den \/ (2 * r = x.den /\ q % 2 = 1) THEN q + 1 ELSE q,
      den |-> Milli]

RECURSIVE SumV(_)
SumV(recs) == IF recs = << >> THEN 0 ELSE Head(recs).rating.v + SumV(Tail(recs))

\* the names of a set of strings in ascending order (groupby sorts its keys)
RECURSIVE SortedNames(_)
SortedNames(S) ==
  IF S = {} THEN << >>
  ELSE LET m == CHOOSE x \in S : \A y \in S \ {x} : StrLess(x, y)
       IN <<m>> \o SortedNames(S \ {m})

\* the sort with response_count ascending
sort_before_count_ascending(a, b) ==
  \/ RatLess(b.average_rating, a.average_rating)
  \/ /\ RatEq(a.average_rating, b.average_rating)
     /\ \/ a.response_count < b.response_count
        \/ /\ a.response_count = b.response_count
           /\ StrLess(a.course, b.course)

\* the sort without the course name as its third key
sort_before_two_keys(a, b) ==
  \/ RatLess(b.average_rating, a.average_rating)
  \/ /\ RatEq(a.average_rating, b.average_rating)
     /\ a.response_count > b.response_count

\* sort_values(by=[average_rating, response_count, course],
\*             ascending=[False, False, True]): a sorts strictly before b
sort_before(a, b) ==
  \/ RatLess(b.average_rating, a.average_rating)
  \/ /\ RatEq(a.average_rating, b.average_rating)
     /\ \/ a.response_count > b.response_count
        \/ /\ a.response_count = b.response_count
           /\ StrLess(a.course, b.course)

\* the orders sort_values may leave the rows in: no row after one it sorts before
SortedOrders(rows) ==
  {p \in Permutations(1..Len(rows)) :
     \A i, j \in 1..Len(rows) : i < j => ~sort_before(rows[p[j]], rows[p[i]])}

(***************************************************************************)
(* Bounds and the inputs drawn within them.                                *)
(***************************************************************************)
MaxRows == 2
MaxCols == 2
MaxRuns == 2
MaxFrags == 5

Text(chars) == [text |-> TRUE, chars |-> chars]

\* "Rate-ACC 1 A"
LabelDash == Text(<<"R", "a", "t", "e", "-", "A", "C", "C", " ", "1", " ", "A">>)
\* "rate ACC 1  A": extracts to the same course name as LabelDash
LabelPlain == Text(<<"r", "a", "t", "e", " ", "A", "C", "C", " ", "1", " ", " ", "A">>)
\* "RATE acc2 b"
LabelLower == Text(<<"R", "A", "T", "E", " ", "a", "c", "c", "2", " ", "b">>)
\* "Rate FIN 3 C": a rating question of another subject
LabelOther == Text(<<"R", "a", "t", "e", " ", "F", "I", "N", " ", "3", " ", "C">>)
\* "ACC 1 A": a course code in a question that is no rating
LabelNoRate == Text(<<"A", "C", "C", " ", "1", " ", "A">>)
\* a column whose header cell is not text (a number, a date)
LabelNonText == [text |-> FALSE, chars |-> << >>]

SheetLabels ==
  {LabelDash, LabelPlain, LabelLower, LabelOther, LabelNoRate, LabelNonText}

Blank == [kind |-> "blank", v |-> 0]
NotANumber == [kind |-> "text", v |-> 0]
Number(v) == [kind |-> "number", v |-> v]
NumberText(v) == [kind |-> "numtext", v |-> v]

\* blank, "n/a", 0, 6, 1, 5, 4.9996 and the text "3"
SheetCells ==
  {Blank, NotANumber, Number(0), Number(6 * Scale), Number(Scale),
   Number(5 * Scale), Number(5 * Scale - 4), NumberText(3 * Scale)}

\* read_excel gives every column a label of its own
DistinctLabels(cols) == \A i, j \in 1..Len(cols) : i # j => cols[i] # cols[j]

EmptyFrame == [columns |-> << >>, rows |-> << >>]
Absent == [state |-> "absent", content |-> << >>]

VARIABLES
  pc,                       \* the statement main() is at
  run,                      \* the number of this invocation
  file_exists,              \* DATA_FILE.exists()
  sheet,                    \* the survey in DATA_FILE, below its header offset
  survey_df,
  elective_rating_columns,
  ratings_wide_df,
  ratings_long_df,
  ranking_df,
  error,                    \* the exception that ended the run
  ranking_csv,              \* the three files of OUTPUT_DIR
  ranking_png,
  summary_txt,
  first_csv,                \* what the first invocation left in the files
  first_summary,
  column_name,              \* the argument of extract_course_name
  course_name,              \* and its result
  lpc

vars ==
  <<pc, run, file_exists, sheet, survey_df, elective_rating_columns,
    ratings_wide_df, ratings_long_df, ranking_df, error, ranking_csv,
    ranking_png, summary_txt, first_csv, first_summary, column_name,
    course_name, lpc>>

frames == <<survey_df, elective_rating_columns, ratings_wide_df,
            ratings_long_df, ranking_df>>
files == <<ranking_csv, ranking_png, summary_txt>>
inputs == <<file_exists, sheet, run, first_csv, first_summary>>
labelvars == <<column_name, course_name, lpc>>

FreshRun ==
  /\ pc = "start"
  /\ survey_df = EmptyFrame
  /\ elective_rating_columns = << >>
  /\ ratings_wide_df = EmptyFrame
  /\ ratings_long_df = << >>
  /\ ranking_df = << >>
  /\ error = "none"

Init ==
  /\ FreshRun
  /\ run = 1
  /\ file_exists \in BOOLEAN
  /\ IF file_exists
     THEN \E k \in 0..MaxCols, n \in 0..MaxRows :
            \E cols \in [1..k -> SheetLabels], rows \in [1..n -> [1..k -> SheetCells]] :
               /\ DistinctLabels(cols)
               /\ sheet = [columns |-> cols, rows |-> rows]
     ELSE sheet = EmptyFrame
  /\ ranking_csv = Absent /\ ranking_png = Absent /\ summary_txt = Absent
  /\ first_csv = Absent /\ first_summary = Absent
  /\ column_name = << >> /\ course_name = << >> /\ lpc = "idle"

Raise(exception) ==
  /\ pc' = "failed"
  /\ error' = exception

\* lines 72-85: the existence check and read_excel
Load ==
  /\ pc = "start"
  /\ IF file_exists
     THEN /\ survey_df' = sheet
          /\ pc' = "loaded"
          /\ UNCHANGED error
     ELSE /\ Raise("FileNotFoundError")
          /\ UNCHANGED survey_df
  /\ UNCHANGED <<elective_rating_columns, ratings_wide_df, ratings_long_df,
                 ranking_df, files, inputs, labelvars>>

\* the selection without the check of lines 105-109
SelectColumnsWithoutCheck ==
  /\ pc = "loaded"
  /\ elective_rating_columns' = SelectSeq(survey_df.columns, IsElectiveRatingColumn)
  /\ pc' = "selected"
  /\ UNCHANGED <<survey_df, ratings_wide_df, ratings_long_df, ranking_df,
                 error, files, inputs, labelvars>>

\* lines 97-109: the selection of the elective rating columns
SelectColumns ==
  /\ pc = "loaded"
  /\ elective_rating_columns' = SelectSeq(survey_df.columns, IsElectiveRatingColumn)
  /\ IF elective_rating_columns' = << >>
     THEN Raise("ValueError")
     ELSE pc' = "selected" /\ UNCHANGED error
  /\ UNCHANGED <<survey_df, ratings_wide_df, ratings_long_df, ranking_df,
                 files, inputs, labelvars>>

\* the position of a label among the columns of a frame
ColumnIndex(df, col) == CHOOSE i \in 1..Len(df.columns) : df.columns[i] = col

\* lines 120-129: the copy of the selected columns, to_numeric and the range filter
CleanRatings ==
  /\ pc = "selected"
  /\ ratings_wide_df' =
       [columns |-> elective_rating_columns,
        rows |-> [r \in 1..Len(survey_df.rows) |->
                    [c \in 1..Len(elective_rating_columns) |->
                       where_in_range(to_numeric(
                         survey_df.rows[r][ColumnIndex(survey_df,
                                                       elective_rating_columns[c])]))]]]
  /\ pc' = "cleaned"
  /\ UNCHANGED <<survey_df, elective_rating_columns, ratings_long_df, ranking_df,
                 error, files, inputs, labelvars>>

\* melt(): one record per cell, column after column
RECURSIVE melt(_, _)
melt(df, c) ==
  IF c > Len(df.columns) THEN << >>
  ELSE [r \in 1..Len(df.rows) |->
          [raw_course_column |-> df.columns[c], rating |-> df.rows[r][c]]]
       \o melt(df, c + 1)

NotNaN(rec) == ~rec.rating.nan

WithCourse(recs) ==
  [i \in 1..Len(recs) |->
     [raw_course_column |-> recs[i].raw_course_column,
      rating |-> recs[i].rating,
      course |-> extract_course_name(recs[i].raw_course_column.chars)]]

\* lines 139-148: melt, dropna and the course names
Reshape ==
  /\ pc = "cleaned"
  /\ ratings_long_df' = WithCourse(SelectSeq(melt(ratings_wide_df, 1), NotNaN))
  /\ pc' = "melted"
  /\ UNCHANGED <<survey_df, elective_rating_columns, ratings_wide_df, ranking_df,
                 error, files, inputs, labelvars>>

\* grouping by the raw column label
group_key_raw_column(rec) == rec.raw_course_column.chars

\* the key groupby() groups a record by
group_key(rec) == rec.course

\* lines 157-163: groupby("course").agg(mean, count)
groupby_agg(long_df) ==
  LET keys == SortedNames({group_key(long_df[i]) : i \in 1..Len(long_df)})
      Group(k) == SelectSeq(long_df, LAMBDA rec : group_key(rec) = k)
  IN [g \in 1..Len(keys) |->
        [course |-> Group(keys[g])[1].course,
         average_rating |-> [num |-> SumV(Group(keys[g])),
                             den |-> Len(Group(keys[g])) * Scale],
         response_count |-> Len(Group(keys[g]))]]

Aggregate ==
  /\ pc = "melted"
  /\ ranking_df' = groupby_agg(ratings_long_df)
  /\ pc' = "aggregated"
  /\ UNCHANGED <<survey_df, elective_rating_columns, ratings_wide_df,
                 ratings_long_df, error, files, inputs, labelvars>>

\* lines 170-173: sort_values and reset_index
SortValues ==
  /\ pc = "aggregated"
  /\ \E p \in SortedOrders(ranking_df) :
       ranking_df' = [i \in 1..Len(ranking_df) |-> ranking_df[p[i]]]
  /\ pc' = "sorted"
  /\ UNCHANGED <<survey_df, elective_rating_columns, ratings_wide_df,
                 ratings_long_df, error, files, inputs, labelvars>>

\* the rank left at the 0-based index
rank_of_zero_based(i) == i - 1

\* line 176: the rank of the row at 0-based index i - 1
rank_of(i) == (i - 1) + 1

InsertRank ==
  /\ pc = "sorted"
  /\ ranking_df' =
       [i \in 1..Len(ranking_df) |->
          [rank |-> rank_of(i),
           course |-> ranking_df[i].course,
           average_rating |-> ranking_df[i].average_rating,
           response_count |-> ranking_df[i].response_count]]
  /\ pc' = "ranked"
  /\ UNCHANGED <<survey_df, elective_rating_columns, ratings_wide_df,
                 ratings_long_df, error, files, inputs, labelvars>>

\* line 179
RoundAverages ==
  /\ pc = "ranked"
  /\ ranking_df' =
       [i \in 1..Len(ranking_df) |->
          [ranking_df[i] EXCEPT !.average_rating = round3(@)]]
  /\ pc' = "rounded"
  /\ UNCHANGED <<survey_df, elective_rating_columns, ratings_wide_df,
                 ratings_long_df, error, files, inputs, labelvars>>

Written(content) == [state |-> "written", content |-> content]
Partial == [state |-> "partial", content |-> << >>]

\* what a write that raises may leave of the file it was writing
AfterFailedWrite(file) == {file, Partial}

\* the CSV write with its failure swallowed: the run goes on to the figure
WriteCsvIgnoringFailure ==
  /\ pc = "rounded"
  /\ ranking_csv' \in {Written(ranking_df), Partial}
  /\ pc' = "csv_written"
  /\ UNCHANGED <<frames, error, ranking_png, summary_txt, inputs, labelvars>>

\* line 182: ranking_df.to_csv(RANKING_CSV, index=False)
WriteCsv ==
  /\ pc = "rounded"
  /\ \/ /\ ranking_csv' = Written(ranking_df)
        /\ pc' = "csv_written"
        /\ UNCHANGED error
     \/ /\ ranking_csv' \in AfterFailedWrite(ranking_csv)
        /\ Raise("OSError")
  /\ UNCHANGED <<frames, ranking_png, summary_txt, inputs, labelvars>>

\* lines 194-203: the bars of the chart, in ranked order
Bars(df) ==
  [i \in 1..Len(df) |-> [course |-> df[i].course,
                         average_rating |-> df[i].average_rating]]

SaveFigure ==
  /\ pc = "csv_written"
  /\ \/ /\ ranking_png' = Written(Bars(ranking_df))
        /\ pc' = "fig_saved"
        /\ UNCHANGED error
     \/ /\ ranking_png' \in AfterFailedWrite(ranking_png)
        /\ Raise("OSError")
  /\ UNCHANGED <<frames, ranking_csv, summary_txt, inputs, labelvars>>

\* ranking_df.head(n)
head(df, n) == SubSeq(df, 1, IF Len(df) < n THEN Len(df) ELSE n)

\* lines 208-223
summary_lines ==
  [rows_loaded |-> Len(survey_df.rows),
   columns_used |-> Len(elective_rating_columns),
   valid_records |-> Len(ratings_long_df),
   top |-> head(ranking_df, TopN)]

\* line 225: SUMMARY_TXT.write_text(...)
WriteSummary ==
  /\ pc = "fig_saved"
  /\ \/ /\ summary_txt' = Written(<<summary_lines>>)
        /\ pc' = "done"
        /\ UNCHANGED error
     \/ /\ summary_txt' \in AfterFailedWrite(summary_txt)
        /\ Raise("OSError")
  /\ UNCHANGED <<frames, ranking_csv, ranking_png, inputs, labelvars>>

\* the script is started again on the unchanged data file and output folder
Rerun ==
  /\ pc = "done"
  /\ run < MaxRuns
  /\ run' = run + 1
  /\ first_csv' = IF run = 1 THEN ranking_csv ELSE first_csv
  /\ first_summary' = IF run = 1 THEN summary_txt ELSE first_summary
  /\ pc' = "start"
  /\ survey_df' = EmptyFrame
  /\ elective_rating_columns' = << >>
  /\ ratings_wide_df' = EmptyFrame
  /\ ratings_long_df' = << >>
  /\ ranking_df' = << >>
  /\ error' = "none"
  /\ UNCHANGED <<file_exists, sheet, files, labelvars>>

Next ==
  \/ Load
  \/ SelectColumns
  \/ CleanRatings
  \/ Reshape
  \/ Aggregate
  \/ SortValues
  \/ InsertRank
  \/ RoundAverages
  \/ WriteCsv
  \/ SaveFigure
  \/ WriteSummary

Spec == Init /\ [][Next]_vars

\* the same, with the script started again when it has ended
NextTwice ==
  \/ Next
  \/ Rerun

SpecTwice == Init /\ [][NextTwice]_vars

(***************************************************************************)
(* extract_course_name on its own: the labels are the concatenations of    *)
(* at most MaxFrags fragments.                                             *)
(***************************************************************************)
Fragments ==
  {<<"R", "a", "t", "e">>, <<"a", "C", "c">>, <<"A", "C", "C", " ", "1">>,
   <<"1">>, <<"b">>, <<" ">>, <<"\n">>, <<"-">>}

RECURSIVE Concat(_)
Concat(parts) == IF parts = << >> THEN << >> ELSE Head(parts) \o Concat(Tail(parts))

InitLabels ==
  /\ FreshRun
  /\ run = 1
  /\ file_exists = FALSE
  /\ sheet = EmptyFrame
  /\ ranking_csv = Absent /\ ranking_png = Absent /\ summary_txt = Absent
  /\ first_csv = Absent /\ first_summary = Absent
  /\ \E k \in 0..MaxFrags : \E parts \in [1..k -> Fragments] :
       column_name = Concat(parts)
  /\ course_name = << >>
  /\ lpc = "called"

ExtractCourseName ==
  /\ lpc = "called"
  /\ course_name' = extract_course_name(column_name)
  /\ lpc' = "returned"
  /\ UNCHANGED <<pc, frames, error, files, inputs, column_name>>

NextLabels == ExtractCourseName

SpecLabels == InitLabels /\ [][NextLabels]_vars

(***************************************************************************)
(* What the claims speak of, stated over the sheet that was read.          *)
(***************************************************************************)
AllIn(chars, lo, hi, S) == \A k \in lo..hi : chars[k] \in S

\* the label holds "rate" in any letter case
HasRate(chars) ==
  \E i \in 1..(Len(chars) - 3) :
     /\ LowerChar(chars[i]) = "r" /\ LowerChar(chars[i + 1]) = "a"
     /\ LowerChar(chars[i + 2]) = "t" /\ LowerChar(chars[i + 3]) = "e"

\* the label holds ACC in any letter case, then whitespace or none, then a digit
HasAccCode(chars) ==
  \E i \in 1..Len(chars), j \in 1..Len(chars) :
     /\ j >= i + 3
     /\ LowerChar(chars[i]) = "a" /\ LowerChar(chars[i + 1]) = "c"
     /\ LowerChar(chars[i + 2]) = "c"
     /\ AllIn(chars, i + 3, j - 1, Whitespace)
     /\ chars[j] \in Digits

\* the label holds any three letters, then whitespace or none, then a digit
HasSubjectCode(chars) ==
  \E i \in 1..Len(chars), j \in 1..Len(chars) :
     /\ j >= i + 3
     /\ AllIn(chars, i, i + 2, Letters)
     /\ AllIn(chars, i + 3, j - 1, Whitespace)
     /\ chars[j] \in Digits

Qualifies(col) == col.text /\ HasRate(col.chars) /\ HasAccCode(col.chars)

QualifiesAnySubject(col) == col.text /\ HasRate(col.chars) /\ HasSubjectCode(col.chars)

\* the labels a sheet may hold that are elective ratings
QualifyingLabels == {col \in SheetLabels : Qualifies(col)}

\* the positions of the sheet's columns that are elective ratings
ElectivePositions == {i \in 1..Len(sheet.columns) : sheet.columns[i] \in QualifyingLabels}

\* the cell parses as a number within [1, 5]
ValidRating(cell) ==
  /\ cell.kind \in {"number", "numtext"}
  /\ cell.v >= MinRating * Scale
  /\ cell.v <= MaxRating * Scale

\* the course name section 4.3 derives from each rating label a sheet may hold:
\* "ACC 1 A" from "Rate-ACC 1 A" and from "rate ACC 1  A", "acc2 b" from
\* "RATE acc2 b"
DerivedName(col) ==
  IF col \in {LabelDash, LabelPlain} THEN <<"A", "C", "C", " ", "1", " ", "A">>
  ELSE IF col = LabelLower THEN <<"a", "c", "c", "2", " ", "b">>
  ELSE col.chars

CourseOf(i) == DerivedName(sheet.columns[i])

\* the cells (row, column) that are valid ratings of the course
ValidCells(name) ==
  {rc \in (1..Len(sheet.rows)) \X {i \in ElectivePositions : CourseOf(i) = name} :
     ValidRating(sheet.rows[rc[1]][rc[2]])}

RatedCourses == {name \in {CourseOf(i) : i \in ElectivePositions} : ValidCells(name) # {}}

RECURSIVE SumCells(_)
SumCells(S) ==
  IF S = {} THEN 0
  ELSE LET rc == CHOOSE x \in S : TRUE
       IN sheet.rows[rc[1]][rc[2]].v + SumCells(S \ {rc})

\* the mean of the valid ratings of a course, not rounded
MeanOf(name) == [num |-> SumCells(ValidCells(name)),
                 den |-> Cardinality(ValidCells(name)) * Scale]

WriteFailed == pc = "failed" /\ error = "OSError"

SelectionDone ==
  \/ pc \notin {"start", "loaded", "failed"}
  \/ pc = "failed" /\ error # "FileNotFoundError"

Aggregated ==
  pc \in {"aggregated", "sorted", "ranked", "rounded", "csv_written",
          "fig_saved", "done"} \/ WriteFailed

Cleaned == Aggregated \/ pc \in {"cleaned", "melted"}

Sorted == Aggregated /\ pc # "aggregated"

Ranked == Sorted /\ pc # "sorted"

Rounded == Ranked /\ pc # "ranked"

(***************************************************************************)
(* The claims.                                                             *)
(***************************************************************************)
Rows == 1..Len(ranking_df)

\* row a comes before row b by a mean, then the count, then the name
OrderedBy(mean_a, a, mean_b, b) ==
  \/ RatLess(mean_b, mean_a)
  \/ /\ RatEq(mean_a, mean_b)
     /\ \/ a.response_count > b.response_count
        \/ /\ a.response_count = b.response_count
           /\ StrLess(a.course, b.course)

\* C1 as stated: for any two distinct rows of the produced ranking, with
\* average_rating the rounded value stored in the row, a is before b if and
\* only if a's average is higher, or equal with a higher response_count, or
\* both equal with a lexicographically smaller course name.
C1_EmittedRowsOrderedByStoredAverage ==
  Rounded =>
    \A i, j \in Rows :
       i # j => (i < j <=> OrderedBy(ranking_df[i].average_rating, ranking_df[i],
                                     ranking_df[j].average_rating, ranking_df[j]))

\* C1 amended: the same order holds of the means before rounding (a is before
\* b iff a's unrounded mean is higher, or equal with a higher response_count,
\* or both equal with a smaller name), and the rounded averages stored in the
\* rows never increase down the ranking.
C1_RowsOrderedByUnroundedMean ==
  /\ Sorted =>
       \A i, j \in Rows :
          i # j => (i < j <=> OrderedBy(MeanOf(ranking_df[i].course), ranking_df[i],
                                        MeanOf(ranking_df[j].course), ranking_df[j]))
  /\ Rounded =>
       \A i, j \in Rows :
          i < j => ~RatLess(ranking_df[i].average_rating, ranking_df[j].average_rating)

\* C1 witness: a written ranking whose first row has the higher unrounded mean,
\* the same rounded average and the lower response_count.
C1_Witness ==
  /\ pc = "done"
  /\ Len(ranking_df) = 2
  /\ RatLess(MeanOf(ranking_df[2].course), MeanOf(ranking_df[1].course))
  /\ ranking_df[1].average_rating = ranking_df[2].average_rating
  /\ ranking_df[1].response_count < ranking_df[2].response_count

\* C2: once ranks are assigned, the ranking has exactly one row per course
\* name with at least one valid rating, and the rank of the row at position i
\* is i, so the ranks are 1..N in row order; the written CSV holds these rows.
C2_RanksAreOneToN ==
  /\ Ranked =>
       /\ Len(ranking_df) = Cardinality(RatedCourses)
       /\ {ranking_df[i].course : i \in Rows} = RatedCourses
       /\ \A i \in Rows : ranking_df[i].rank = i
  /\ ranking_csv.state = "written" =>
       /\ Len(ranking_csv.content) = Cardinality(RatedCourses)
       /\ \A i \in 1..Len(ranking_csv.content) : ranking_csv.content[i].rank = i

\* C2 witness: a completed run that ranked two courses.
C2_Witness ==
  /\ pc = "done"
  /\ Cardinality(RatedCourses) = 2
  /\ ranking_csv.content[2].rank = 2

\* C3 as stated: when no cell of a selected column is a valid rating, the run
\* fails with the no-valid-ratings error: it is never found past the reshape
\* step, and no ranking without rows is written.
C3_NoValidRatingsIsFatal ==
  /\ (SelectionDone /\ ElectivePositions # {} /\ RatedCourses = {}) =>
        pc \in {"selected", "cleaned", "melted", "failed"}
  /\ ranking_csv.state = "written" => Len(ranking_csv.content) > 0

\* C4: a cell of a selected column counts towards its course's mean and
\* response_count if and only if it parses as a number within [1, 5]: after
\* cleaning, every such cell keeps its value and every other cell is missing,
\* and the count and the sum of each aggregated course are those of exactly
\* the valid cells (1 and 5 included, nothing clamped).
C4_OnlyValidCellsContribute ==
  /\ Cleaned =>
       \A r \in 1..Len(ratings_wide_df.rows) :
          \A c \in 1..Len(ratings_wide_df.columns) :
             LET cell == sheet.rows[r][ColumnIndex(sheet, ratings_wide_df.columns[c])]
             IN ratings_wide_df.rows[r][c] =
                  IF ValidRating(cell) THEN [nan |-> FALSE, v |-> cell.v] ELSE NaN
  /\ Aggregated =>
       \A i \in Rows :
          /\ ranking_df[i].response_count = Cardinality(ValidCells(ranking_df[i].course))
          /\ ~Rounded => ranking_df[i].average_rating = MeanOf(ranking_df[i].course)

\* C4 witness: a column holding a 6 and a 5 was aggregated to one response
\* whose mean is 5.
C4_Witness ==
  /\ pc = "aggregated"
  /\ Len(sheet.columns) = 1
  /\ Len(sheet.rows) = 2
  /\ sheet.rows[1][1] = Number(6 * Scale)
  /\ sheet.rows[2][1] = Number(5 * Scale)
  /\ Len(ranking_df) = 1
  /\ ranking_df[1].response_count = 1
  /\ ranking_df[1].average_rating = [num |-> 5 * Scale, den |-> Scale]

\* the records of ratings_long_df whose course name is the given one
RecordsOf(name) == SelectSeq(ratings_long_df, LAMBDA rec : rec.course = name)

\* C5: every row of the ranking has response_count >= 1, an average within
\* [1, 5] (before and after rounding), and a response_count equal to the number
\* of rating records whose course name is the row's, whatever raw column they
\* come from.
C5_CountsAndAveragesInRange ==
  Aggregated =>
    \A i \in Rows :
       /\ ranking_df[i].response_count >= 1
       /\ ranking_df[i].response_count = Len(RecordsOf(ranking_df[i].course))
       /\ ranking_df[i].average_rating.num >= MinRating * ranking_df[i].average_rating.den
       /\ ranking_df[i].average_rating.num <= MaxRating * ranking_df[i].average_rating.den
       /\ Rounded => ranking_df[i].average_rating.den = Milli

\* C5 witness: two raw columns of one course name were merged into one row
\* that counts the records of both.
C5_Witness ==
  /\ pc = "done"
  /\ Len(elective_rating_columns) = 2
  /\ Len(ranking_df) = 1
  /\ ranking_df[1].response_count = 3
  /\ \E i, j \in 1..Len(ratings_long_df) :
        ratings_long_df[i].raw_course_column # ratings_long_df[j].raw_course_column

\* C6: when no column label holds both "rate" and a course code, the run ends
\* at the selection with the ValueError of line 106, and nothing after the
\* selection has run: no frame of a later step is built and no file is written.
C6_NoElectiveColumnsIsFatal ==
  (SelectionDone /\ \A i \in 1..Len(sheet.columns) :
                       ~(HasRate(sheet.columns[i].chars)
                         /\ HasAccCode(sheet.columns[i].chars))) =>
    /\ pc = "failed"
    /\ error = "ValueError"
    /\ ratings_wide_df = EmptyFrame
    /\ ratings_long_df = << >>
    /\ ranking_df = << >>
    /\ ranking_csv = Absent /\ ranking_png = Absent /\ summary_txt = Absent

\* C6 witness: a sheet with a rating question of another subject and a course
\* code in a question that is no rating has ended at the selection.
C6_Witness ==
  /\ pc = "failed"
  /\ error = "ValueError"
  /\ sheet.columns = <<LabelOther, LabelNoRate>>
  /\ Len(sheet.rows) = 2

\* the selected labels are labels of the sheet, in the sheet's order
KeepsColumnOrder ==
  \A j, k \in 1..Len(elective_rating_columns) :
     j < k => \E a, b \in 1..Len(sheet.columns) :
                 /\ a < b
                 /\ sheet.columns[a] = elective_rating_columns[j]
                 /\ sheet.columns[b] = elective_rating_columns[k]

IsSelected(col) ==
  \E j \in 1..Len(elective_rating_columns) : elective_rating_columns[j] = col

\* C7 as stated: the selected labels are exactly the text labels that hold
\* "rate" and any three-letter subject code followed by a number, in the
\* sheet's order.
C7_SelectsAnySubjectCode ==
  SelectionDone =>
    /\ \A i \in 1..Len(sheet.columns) :
          IsSelected(sheet.columns[i]) <=> QualifiesAnySubject(sheet.columns[i])
    /\ KeepsColumnOrder

\* C7 amended: the selected labels are exactly the text labels that hold
\* "rate" in any letter case and the letters ACC (in any letter case) followed
\* by optional whitespace and a digit; none is left out, none is added, and
\* they keep the sheet's column order.
C7_SelectsAccRatingColumns ==
  SelectionDone =>
    /\ \A i \in 1..Len(sheet.columns) :
          IsSelected(sheet.columns[i]) <=> Qualifies(sheet.columns[i])
    /\ \A j \in 1..Len(elective_rating_columns) :
          \E i \in 1..Len(sheet.columns) : sheet.columns[i] = elective_rating_columns[j]
    /\ KeepsColumnOrder

\* C7 witness: two columns were selected in the sheet's order, the second
\* spelling the marker and the code in another letter case.
C7_Witness ==
  /\ pc = "selected"
  /\ sheet.columns = <<LabelDash, LabelLower>>
  /\ elective_rating_columns = <<LabelDash, LabelLower>>

\* the writes happen in the order CSV, figure, summary
WritesInOrder ==
  /\ ranking_png.state # "absent" => ranking_csv.state = "written"
  /\ summary_txt.state # "absent" =>
       ranking_png.state = "written" /\ ranking_csv.state = "written"
  /\ WriteFailed => summary_txt.state # "written"

\* a step never undoes a written file, never starts from a failed run, and a
\* failing write ends the run without the outputs that follow it
NoRollbackNoRetry ==
  /\ pc # "failed"
  /\ ranking_csv.state = "written" => ranking_csv' = ranking_csv
  /\ ranking_png.state = "written" => ranking_png' = ranking_png
  /\ error' = "OSError" =>
       /\ pc' = "failed"
       /\ ranking_csv.state # "written" => ranking_png' = Absent /\ summary_txt' = Absent
       /\ ranking_png.state # "written" => summary_txt' = Absent

\* C9: the three outputs are written in the order CSV, figure, summary; a
\* write that fails ends the run (nothing runs after it, it is not tried
\* again), the outputs after it are not written, and the outputs written
\* before it stay as they were written.
C9_WritesInOrderWithoutRollback == []WritesInOrder /\ [][NoRollbackNoRetry]_vars

\* C9 witness: the figure failed after the CSV was written; the CSV is still
\* there and the summary was never written.
C9_Witness ==
  /\ WriteFailed
  /\ ranking_csv.state = "written"
  /\ Len(ranking_csv.content) = 2
  /\ ranking_png.state = "partial"
  /\ summary_txt = Absent

\* C10: a second run on the unchanged input leaves the CSV and the summary
\* with the contents the first run wrote, because the rows cannot tie on all
\* three sort keys: the course names of the rows are distinct, so the sort
\* admits exactly one order.
C10_SecondRunWritesTheSame ==
  /\ (run >= 2 /\ ranking_csv.state = "written"
        /\ pc \in {"csv_written", "fig_saved", "done"}) => ranking_csv = first_csv
  /\ (run >= 2 /\ pc = "done") => summary_txt = first_summary
  /\ Aggregated =>
       \A i, j \in Rows : i # j => ranking_df[i].course # ranking_df[j].course
  /\ pc = "aggregated" => Cardinality(SortedOrders(ranking_df)) = 1

\* C10 witness: a second run has ended on a ranking of two courses that tie on
\* the average and on the count.
C10_Witness ==
  /\ run = 2
  /\ pc = "done"
  /\ Len(ranking_df) = 2
  /\ ranking_df[1].average_rating = ranking_df[2].average_rating
  /\ ranking_df[1].response_count = ranking_df[2].response_count
  /\ ranking_csv = first_csv

(***************************************************************************)
(* Section 4.3 read on its own: the three rules of the name extractor.     *)
(***************************************************************************)
\* the first position from i on whose character is not in S (past the end if none)
FirstNotIn(s, i, S) ==
  Min({x \in i..(Len(s) + 1) : x = Len(s) + 1 \/ s[x] \notin S})

\* a course code starts at i (ACC, whitespace or none, digits, letters or none)
\* and is followed by whitespace and trailing text; with visible set, the
\* trailing text must hold a character that is no whitespace, otherwise any
\* character will do
CodeWithTextAt(s, i, visible) ==
  /\ i + 3 <= Len(s)
  /\ LowerChar(s[i]) = "a" /\ LowerChar(s[i + 1]) = "c" /\ LowerChar(s[i + 2]) = "c"
  /\ LET j == FirstNotIn(s, i + 3, Whitespace)
         k == FirstNotIn(s, j, Digits)
         l == FirstNotIn(s, k, Letters)
         m == FirstNotIn(s, l, Whitespace)
     IN /\ j < k
        /\ l < m
        /\ IF visible THEN m <= Len(s) ELSE l + 1 <= Len(s)

\* a dash at d is followed, after whitespace or none, by a course code with text
DashBeforeCodeAt(s, d, visible) ==
  /\ s[d] = "-"
  /\ \E g \in (d + 1)..Len(s) :
        AllIn(s, d + 1, g - 1, Whitespace) /\ CodeWithTextAt(s, g, visible)

\* the text with its whitespace runs collapsed to single spaces, none at the ends
CollapseWhitespace(s) ==
  LET keep == SelectSeq([i \in 1..Len(s) |-> i],
                        LAMBDA i : \/ s[i] \notin Whitespace
                                   \/ /\ i > 1
                                      /\ s[i - 1] \notin Whitespace
                                      /\ \E k \in (i + 1)..Len(s) : s[k] \notin Whitespace)
  IN [n \in 1..Len(keep) |-> IF s[keep[n]] \in Whitespace THEN " " ELSE s[keep[n]]]

\* the name the three rules give, under either reading of "trailing text"
NameBySection43(s, visible) ==
  LET dashes == {d \in 1..Len(s) : DashBeforeCodeAt(s, d, visible)}
      codes == {i \in 1..Len(s) : CodeWithTextAt(s, i, visible)}
  IN IF dashes # {}
     THEN LET d == Min(dashes)
              g == Min({x \in (d + 1)..Len(s) : s[x] \notin Whitespace})
          IN CollapseWhitespace(SubSeq(s, g, Len(s)))
     ELSE IF codes # {} THEN CollapseWhitespace(SubSeq(s, Min(codes), Len(s)))
     ELSE Strip(s)

\* C8 as stated: for every label, extract_course_name returns the text after
\* the first dash that a course code with trailing text follows, whitespace
\* collapsed; failing that, the text from the first course code with trailing
\* text; failing that, the label trimmed.  (Stated of the labels on which both
\* readings of "trailing text" give one name.)
C8_ExtractFollowsTheThreeRules ==
  (lpc = "returned"
     /\ NameBySection43(column_name, TRUE) = NameBySection43(column_name, FALSE)) =>
    course_name = NameBySection43(column_name, TRUE)

\* on a label without a line break the function does follow the three rules
C8_HoldsWithoutLineBreaks ==
  (lpc = "returned" /\ \A i \in 1..Len(column_name) : column_name[i] # "\n") =>
    course_name = NameBySection43(column_name, FALSE)

\* a label of one line on which rule 1 beat rule 2
C8_RuleOneCase ==
  /\ lpc = "returned"
  /\ \A i \in 1..Len(column_name) : column_name[i] # "\n"
  /\ \E d \in 1..Len(column_name) :
        /\ DashBeforeCodeAt(column_name, d, TRUE)
        /\ \E i \in 1..(d - 1) : CodeWithTextAt(column_name, i, TRUE)

====
